---- MODULE Spec2Model ----
(***************************************************************************)
(* One run of the dashboard script src/dashboard.py: scan the user keys,   *)
(* fetch one record per key, build the user table, apply the stage filter, *)
(* compute the cumulative onboarding funnel and the per-stage distribution *)
(* table.                                                                  *)
(*                                                                         *)
(* The source's Cyrillic column names and stage captions cannot be written *)
(* in a TLA+ string; they are transliterated: 'Стадия' = Stadiya,          *)
(* 'Количество' = Kolichestvo, 'Порядок' = Poryadok.                       *)
(***************************************************************************)
EXTENDS Integers, Sequences, FiniteSets, TLC

VARIABLES
    pc,                       \* position of the script run
    cursor,                   \* get_all_user_keys: SCAN cursor
    scan_i,                   \* get_all_user_keys: SCAN calls made so far
    keys,                     \* keys collected by get_all_user_keys
    users_data,               \* process_users_data: records fetched so far
    df,                       \* the user table (pandas DataFrame)
    selected_stages,          \* value of the stage multiselect
    filtered_df,              \* rows of df kept by the stage filter
    onboarding_stages_ordered,\* the funnel's stage order
    funnel_i,                 \* funnel loop: index of the next stage
    funnel_data,              \* funnel loop: rows appended so far
    funnel_df,                \* the sorted funnel table
    stage_counts,             \* df['onboarding_stage'].value_counts()
    error,                    \* exception that ended the run, or NoError
    store_keys,               \* the user:* keys the store holds during the scan
    total_users               \* the 'total users' metric, NoMetric before it

vars == <<pc, cursor, scan_i, keys, users_data, df, selected_stages,
          filtered_df, onboarding_stages_ordered, funnel_i, funnel_data,
          funnel_df, stage_counts, error, store_keys, total_users>>

----------------------------------------------------------------------------
(* Bounds of the model *)

MaxKeys == 3          \* most keys collected over all SCAN replies
MaxPage == 2          \* most keys in one SCAN reply
MaxCursor == 1        \* SCAN cursors range over 0..MaxCursor

(* Inputs *)

UserKeys == {"user:1", "user:2"}

\* onboarding_stage values found in the store's hashes
StoredStages == {"agreement", "gender", "complete", "unknown_stage"}

\* selections of the stage multiselect that the run is tried with
SelectedChoices == {{}, {"complete"}}

----------------------------------------------------------------------------
(* Values *)

NaN == "NaN"                 \* pandas' missing value
NoError == "none"
NoTable == [none |-> 0]      \* stage_counts before / without its computation
NoMetric == -1               \* total_users before its computation

max_iterations == 100

\* the list literal bound to onboarding_stages_ordered
StageOrderLiteral ==
    << "agreement", "birth_date", "gender", "goal", "activity_level",
       "current_weight", "target_weight", "height", "daily_calories",
       "complete" >>

\* the dict stage_options (captions transliterated)
stage_options ==
    [ agreement      |-> "Soglashenie",
      birth_date     |-> "Data rozhdeniya",
      gender         |-> "Pol",
      goal           |-> "Tsel",
      activity_level |-> "Uroven aktivnosti",
      current_weight |-> "Tekushchiy ves",
      target_weight  |-> "Tselevoy ves",
      height         |-> "Rost",
      daily_calories |-> "Kalorazh",
      complete       |-> "Zavershennyy onbording" ]

\* stage_options.get(stage, stage)
stage_options_get(stage) ==
    IF stage \in DOMAIN stage_options THEN stage_options[stage] ELSE stage

Range(s) == { s[k] : k \in DOMAIN s }

\* sequences over S of length 0..n
SeqsUpTo(S, n) == UNION { [1..m -> S] : m \in 0..n }

----------------------------------------------------------------------------
(* pandas helpers *)

\* pd.DataFrame(list of dicts): the columns are the union of the dicts' keys,
\* a key a dict lacks is NaN in its row
DataFrame(dicts) ==
    LET cols == UNION { DOMAIN dicts[k] : k \in DOMAIN dicts }
    IN  [ columns |-> cols,
          rows    |-> [ k \in DOMAIN dicts |->
                          [ c \in cols |-> IF c \in DOMAIN dicts[k]
                                           THEN dicts[k][c] ELSE NaN ] ] ]

\* pd.DataFrame()
EmptyDataFrame == [ columns |-> {}, rows |-> << >> ]

\* df.empty
IsEmpty(d) == d.columns = {} \/ d.rows = << >>

\* mutant of isin: every label that is not NaN passes
isin_any_label(value, values) == value # NaN

\* Series.isin(values): NaN is in no list of labels
isin(value, values) == value # NaN /\ value \in values

\* df[df[col].isin(values)]: the rows kept, in order
RECURSIVE FilterIsin(_, _, _)
FilterIsin(rows, col, values) ==
    IF rows = << >> THEN << >>
    ELSE LET rest == FilterIsin(Tail(rows), col, values)
         IN  IF isin(Head(rows)[col], values)
             THEN << Head(rows) >> \o rest ELSE rest

----------------------------------------------------------------------------
(* get_user_data *)

\* mutant of get_user_data_hash: a user_id field of the hash is kept
get_user_data_hash_keep(key, data) ==
    [ f \in DOMAIN data \cup {"user_id"} |->
         IF f \in DOMAIN data THEN data[f] ELSE key ]

\* the dict returned for a key of type hash whose HGETALL reply is `data`
get_user_data_hash(key, data) ==
    [ f \in DOMAIN data \cup {"user_id"} |->
         IF f = "user_id" THEN key ELSE data[f] ]

\* the dict returned for a key that is not a hash
get_user_data_other(key) == [ user_id |-> key ]

\* the dict returned when the store raises
get_user_data_error(key) == [ user_id |-> key, error |-> "err" ]

\* HGETALL replies: the hash with or without an onboarding_stage field, and
\* a hash that has a user_id field of its own
HashReplies ==
    { [ f \in {} |-> NaN ] } \cup
    { [ user_id |-> "user:0" ] } \cup
    { [ onboarding_stage |-> s ] : s \in StoredStages }

\* every dict get_user_data can return for a key
get_user_data(key) ==
    { get_user_data_hash(key, data) : data \in HashReplies }
      \cup { get_user_data_other(key), get_user_data_error(key) }

\* mutant of demo_data: no demo rows, the table stays empty
demo_data_missing == [ columns |-> {}, rows |-> << >> ]

\* the demo table substituted for an empty user table
demo_data ==
    DataFrame(<<
      [ user_id |-> "user:1", onboarding_stage |-> "complete",
        agreement |-> "2024-01-01", subscription_expiry |-> "2024-12-31",
        bot_was_blocked |-> TRUE ],
      [ user_id |-> "user:2", onboarding_stage |-> "agreement",
        agreement |-> "2024-01-02", subscription_expiry |-> "2024-01-15",
        bot_was_blocked |-> TRUE ],
      [ user_id |-> "user:3", onboarding_stage |-> "birth_date",
        agreement |-> "2024-01-03", subscription_expiry |-> "2024-12-31",
        bot_was_blocked |-> TRUE ],
      [ user_id |-> "user:4", onboarding_stage |-> "complete",
        agreement |-> "2024-01-04", subscription_expiry |-> "2023-12-31",
        bot_was_blocked |-> TRUE ],
      [ user_id |-> "user:5", onboarding_stage |-> "gender",
        agreement |-> "2024-01-05", subscription_expiry |-> "2024-12-31",
        bot_was_blocked |-> TRUE ] >>)

----------------------------------------------------------------------------
(* The funnel loop *)

\* mutant of stages_to_include: the slice [i+1:], without the stage itself
stages_to_include_exclusive(order, i) ==
    { order[k] : k \in (i + 2)..Len(order) }

\* mutant of stages_to_include: the stage itself only
stages_to_include_exact(order, i) ==
    { order[i + 1] }

\* onboarding_stages_ordered[i:] for the zero-based index i
stages_to_include(order, i) ==
    { order[k] : k \in (i + 1)..Len(order) }

\* mutant of stage_users: the identifiers of all rows, whatever their label
stage_users_unfiltered(d, stages) ==
    { r["user_id"] : r \in Range(d.rows) }

\* set(df[df['onboarding_stage'].isin(stages)]['user_id'])
stage_users(d, stages) ==
    { r["user_id"] : r \in Range(FilterIsin(d.rows, "onboarding_stage", stages)) }

\* mutant of funnel_count: the number of rows, not of distinct identifiers
funnel_count_rows(d, order, i) ==
    IF "onboarding_stage" \in d.columns
    THEN Len(FilterIsin(d.rows, "onboarding_stage", stages_to_include(order, i)))
    ELSE 0

\* the count of the loop body for the zero-based index i
funnel_count(d, order, i) ==
    IF "onboarding_stage" \in d.columns
    THEN Cardinality(stage_users(d, stages_to_include(order, i)))
    ELSE 0

\* the dict appended to funnel_data for the zero-based index i
funnel_row(d, order, i) ==
    [ Stadiya     |-> stage_options_get(order[i + 1]),
      Kolichestvo |-> funnel_count(d, order, i),
      Poryadok    |-> i ]

\* mutant of InsertByOrder: descending order
RECURSIVE InsertByOrder_descending(_, _)
InsertByOrder_descending(row, sorted) ==
    IF sorted = << >> THEN << row >>
    ELSE IF row.Poryadok > Head(sorted).Poryadok
         THEN << row >> \o sorted
         ELSE << Head(sorted) >> \o InsertByOrder_descending(row, Tail(sorted))

\* insertion of a row into rows sorted by ascending Poryadok
RECURSIVE InsertByOrder(_, _)
InsertByOrder(row, sorted) ==
    IF sorted = << >> THEN << row >>
    ELSE IF row.Poryadok < Head(sorted).Poryadok
         THEN << row >> \o sorted
         ELSE << Head(sorted) >> \o InsertByOrder(row, Tail(sorted))

RECURSIVE SortByOrder(_)
SortByOrder(rows) ==
    IF rows = << >> THEN << >>
    ELSE InsertByOrder(Head(rows), SortByOrder(Tail(rows)))

KeyError == "KeyError"

\* mutant of sort_values: an empty table sorts to an empty table
sort_values_lenient(rows) == SortByOrder(rows)

\* pd.DataFrame(funnel_data).sort_values('Poryadok'): a table built from an
\* empty list has no columns, so sorting it by a column raises KeyError
sort_values(rows) ==
    IF rows = << >> THEN KeyError ELSE SortByOrder(rows)

\* the whole funnel computation on the table d: the rows of the loop, sorted
compute_funnel(d, order) ==
    sort_values([ n \in 1..Len(order) |-> funnel_row(d, order, n - 1) ])

----------------------------------------------------------------------------
(* The per-stage distribution table *)

\* mutant of value_counts: NaN is counted like a label (dropna=False)
value_counts_keepna(d) ==
    LET labels == { r["onboarding_stage"] : r \in Range(d.rows) }
    IN  [ l \in labels |->
            Cardinality({ k \in DOMAIN d.rows :
                            d.rows[k]["onboarding_stage"] = l }) ]

\* mutant of value_counts: distinct identifiers per label instead of rows
value_counts_unique(d) ==
    LET labels == { r["onboarding_stage"] : r \in Range(d.rows) } \ {NaN}
    IN  [ l \in labels |->
            Cardinality({ d.rows[k]["user_id"] :
                            k \in { n \in DOMAIN d.rows :
                                      d.rows[n]["onboarding_stage"] = l } }) ]

\* df['onboarding_stage'].value_counts(): label -> number of rows, NaN dropped
value_counts(d) ==
    LET labels == { r["onboarding_stage"] : r \in Range(d.rows) } \ {NaN}
    IN  [ l \in labels |->
            Cardinality({ k \in DOMAIN d.rows :
                            d.rows[k]["onboarding_stage"] = l }) ]

----------------------------------------------------------------------------
(* Initial state: the script is about to call get_all_user_keys *)

Init ==
    /\ pc = "scan"
    /\ cursor = 0
    /\ scan_i = 0
    /\ keys = << >>
    /\ users_data = << >>
    /\ df = EmptyDataFrame
    /\ selected_stages = {}
    /\ filtered_df = << >>
    /\ onboarding_stages_ordered = StageOrderLiteral
    /\ funnel_i = 0
    /\ funnel_data = << >>
    /\ funnel_df = << >>
    /\ stage_counts = NoTable
    /\ error = NoError
    /\ store_keys \in SUBSET UserKeys
    /\ total_users = NoMetric

----------------------------------------------------------------------------
(* get_all_user_keys *)

\* mutant of ScanCall: the loop does not break on cursor 0
ScanCall_no_break ==
    /\ pc = "scan"
    /\ scan_i < max_iterations
    /\ \E next \in 0..MaxCursor, page \in SeqsUpTo(store_keys, MaxPage) :
         /\ Len(keys) + Len(page) <= MaxKeys
         /\ next = 0 => store_keys \subseteq Range(keys \o page)
         /\ cursor' = next
         /\ keys' = keys \o page
         /\ scan_i' = scan_i + 1
         /\ pc' = IF scan_i + 1 = max_iterations
                  THEN "scan_return" ELSE "scan"
    /\ UNCHANGED <<users_data, df, selected_stages, filtered_df,
                   onboarding_stages_ordered, funnel_i, funnel_data,
                   funnel_df, stage_counts, error, store_keys, total_users>>

\* one iteration of the scan loop: a SCAN call that returns a page of keys
\* of the store and the next cursor. The store returns cursor 0 only once
\* every key it holds has been returned (SCAN's guarantee for a complete
\* iteration); a key may be returned more than once and a page may be empty.
\* The loop is left on cursor 0 and when the range is exhausted.
ScanCall ==
    /\ pc = "scan"
    /\ scan_i < max_iterations
    /\ \E next \in 0..MaxCursor, page \in SeqsUpTo(store_keys, MaxPage) :
         /\ Len(keys) + Len(page) <= MaxKeys
         /\ next = 0 => store_keys \subseteq Range(keys \o page)
         /\ cursor' = next
         /\ keys' = keys \o page
         /\ scan_i' = scan_i + 1
         /\ pc' = IF next = 0 \/ scan_i + 1 = max_iterations
                  THEN "scan_return" ELSE "scan"
    /\ UNCHANGED <<users_data, df, selected_stages, filtered_df,
                   onboarding_stages_ordered, funnel_i, funnel_data,
                   funnel_df, stage_counts, error, store_keys, total_users>>

\* a SCAN call that raises: control goes to the except branch
ScanRaise ==
    /\ pc = "scan"
    /\ scan_i < max_iterations
    /\ scan_i' = scan_i + 1
    /\ pc' = "scan_except"
    /\ UNCHANGED <<cursor, keys, users_data, df, selected_stages, filtered_df,
                   onboarding_stages_ordered, funnel_i, funnel_data,
                   funnel_df, stage_counts, error, store_keys, total_users>>

\* return keys: the caller gets the collected keys, the function's locals
\* cursor and i are gone
ReturnKeys ==
    /\ pc = "scan_return"
    /\ cursor' = 0
    /\ scan_i' = 0
    /\ pc' = "process"
    /\ UNCHANGED <<keys, users_data, df, selected_stages, filtered_df,
                   onboarding_stages_ordered, funnel_i, funnel_data,
                   funnel_df, stage_counts, error, store_keys, total_users>>

\* the except branch: the error is shown and [] is returned, the keys
\* collected so far are dropped; the exception does not propagate
ReturnEmpty ==
    /\ pc = "scan_except"
    /\ keys' = << >>
    /\ cursor' = 0
    /\ scan_i' = 0
    /\ pc' = "process"
    /\ UNCHANGED <<users_data, df, selected_stages, filtered_df,
                   onboarding_stages_ordered, funnel_i, funnel_data,
                   funnel_df, stage_counts, error, store_keys, total_users>>

----------------------------------------------------------------------------
(* process_users_data and the demo fallback *)

\* no keys: process_users_data returns an empty table, which the script
\* replaces by the demo table
NoKeys ==
    /\ pc = "process"
    /\ keys = << >>
    /\ df' = IF IsEmpty(EmptyDataFrame) THEN demo_data ELSE EmptyDataFrame
    /\ pc' = "metrics"
    /\ UNCHANGED <<cursor, scan_i, keys, users_data, selected_stages,
                   filtered_df, onboarding_stages_ordered, funnel_i,
                   funnel_data, funnel_df, stage_counts, error, store_keys,
                   total_users>>

\* one iteration of the fetch loop
FetchUser ==
    /\ pc = "process"
    /\ keys # << >>
    /\ Len(users_data) < Len(keys)
    /\ \E user_data \in get_user_data(keys[Len(users_data) + 1]) :
         users_data' = Append(users_data, user_data)
    /\ UNCHANGED <<pc, cursor, scan_i, keys, df, selected_stages,
                   filtered_df, onboarding_stages_ordered, funnel_i,
                   funnel_data, funnel_df, stage_counts, error, store_keys,
                   total_users>>

\* the fetch loop is over: build the table, fall back to the demo table
\* when it is empty
BuildTable ==
    /\ pc = "process"
    /\ keys # << >>
    /\ Len(users_data) = Len(keys)
    /\ LET built == DataFrame(users_data)
       IN  df' = IF IsEmpty(built) THEN demo_data ELSE built
    /\ pc' = "metrics"
    /\ UNCHANGED <<cursor, scan_i, keys, users_data, selected_stages,
                   filtered_df, onboarding_stages_ordered, funnel_i,
                   funnel_data, funnel_df, stage_counts, error, store_keys,
                   total_users>>

----------------------------------------------------------------------------
(* The metrics row *)

\* total_users = len(df)
Metrics ==
    /\ pc = "metrics"
    /\ total_users' = Len(df.rows)
    /\ pc' = "filters"
    /\ UNCHANGED <<cursor, scan_i, keys, users_data, df, selected_stages,
                   filtered_df, onboarding_stages_ordered, funnel_i,
                   funnel_data, funnel_df, stage_counts, error, store_keys>>

----------------------------------------------------------------------------
(* The stage filter *)

\* the filter is applied and the run goes on to the funnel
ApplyFilter ==
    /\ pc = "filters"
    /\ \E sel \in SelectedChoices :
         /\ sel = {} \/ "onboarding_stage" \in df.columns
         /\ selected_stages' = sel
         /\ filtered_df' = IF sel = {} THEN df.rows
                           ELSE FilterIsin(df.rows, "onboarding_stage", sel)
    /\ pc' = "funnel"
    /\ UNCHANGED <<cursor, scan_i, keys, users_data, df,
                   onboarding_stages_ordered, funnel_i, funnel_data,
                   funnel_df, stage_counts, error, store_keys,
                   total_users>>

\* a non-empty selection on a table without the onboarding_stage column:
\* filtered_df['onboarding_stage'] raises KeyError and the run ends
FilterRaise ==
    /\ pc = "filters"
    /\ \E sel \in SelectedChoices :
         /\ sel # {}
         /\ "onboarding_stage" \notin df.columns
         /\ selected_stages' = sel
    /\ filtered_df' = df.rows
    /\ error' = KeyError
    /\ pc' = "aborted"
    /\ UNCHANGED <<cursor, scan_i, keys, users_data, df,
                   onboarding_stages_ordered, funnel_i, funnel_data,
                   funnel_df, stage_counts, store_keys,
                   total_users>>

----------------------------------------------------------------------------
(* The funnel *)

\* mutant of FunnelStep: the loop narrows the user table in place
\* (df = df[df['onboarding_stage'].isin(stages_to_include)])
FunnelStep_in_place ==
    /\ pc = "funnel"
    /\ funnel_i < Len(onboarding_stages_ordered)
    /\ funnel_data' = Append(funnel_data,
                             funnel_row(df, onboarding_stages_ordered, funnel_i))
    /\ df' = IF "onboarding_stage" \in df.columns
             THEN [ columns |-> df.columns,
                    rows    |-> FilterIsin(df.rows, "onboarding_stage",
                                  stages_to_include(onboarding_stages_ordered,
                                                    funnel_i)) ]
             ELSE df
    /\ funnel_i' = funnel_i + 1
    /\ UNCHANGED <<pc, cursor, scan_i, keys, users_data, selected_stages,
                   filtered_df, onboarding_stages_ordered, funnel_df,
                   stage_counts, error, store_keys,
                   total_users>>

\* one iteration of the funnel loop
FunnelStep ==
    /\ pc = "funnel"
    /\ funnel_i < Len(onboarding_stages_ordered)
    /\ funnel_data' = Append(funnel_data,
                             funnel_row(df, onboarding_stages_ordered, funnel_i))
    /\ funnel_i' = funnel_i + 1
    /\ UNCHANGED <<pc, cursor, scan_i, keys, users_data, df, selected_stages,
                   filtered_df, onboarding_stages_ordered, funnel_df,
                   stage_counts, error, store_keys,
                   total_users>>

\* the loop is over: build and sort the funnel table
FunnelSort ==
    /\ pc = "funnel"
    /\ funnel_i = Len(onboarding_stages_ordered)
    /\ sort_values(funnel_data) # KeyError
    /\ funnel_df' = sort_values(funnel_data)
    /\ pc' = "stats"
    /\ UNCHANGED <<cursor, scan_i, keys, users_data, df, selected_stages,
                   filtered_df, onboarding_stages_ordered, funnel_i,
                   funnel_data, stage_counts, error, store_keys,
                   total_users>>

\* sorting raises: the run ends without a funnel table
FunnelSortRaise ==
    /\ pc = "funnel"
    /\ funnel_i = Len(onboarding_stages_ordered)
    /\ sort_values(funnel_data) = KeyError
    /\ error' = KeyError
    /\ pc' = "aborted"
    /\ UNCHANGED <<cursor, scan_i, keys, users_data, df, selected_stages,
                   filtered_df, onboarding_stages_ordered, funnel_i,
                   funnel_data, funnel_df, stage_counts, store_keys,
                   total_users>>

----------------------------------------------------------------------------
(* The per-stage distribution table *)

StageStats ==
    /\ pc = "stats"
    /\ stage_counts' = IF "onboarding_stage" \in df.columns
                       THEN value_counts(df) ELSE stage_counts
    /\ pc' = "done"
    /\ UNCHANGED <<cursor, scan_i, keys, users_data, df, selected_stages,
                   filtered_df, onboarding_stages_ordered, funnel_i,
                   funnel_data, funnel_df, error, store_keys,
                   total_users>>

----------------------------------------------------------------------------

Next ==
    \/ ScanCall
    \/ ScanRaise
    \/ ReturnKeys
    \/ ReturnEmpty
    \/ NoKeys
    \/ FetchUser
    \/ BuildTable
    \/ Metrics
    \/ ApplyFilter
    \/ FilterRaise
    \/ FunnelStep
    \/ FunnelSort
    \/ StageStats

Spec == Init /\ [][Next]_vars

----------------------------------------------------------------------------
(* The funnel loop on its own: lines 393-418 as a function of the list      *)
(* bound to onboarding_stages_ordered and of the user table                 *)

MaxRows == 2          \* most rows of a user table handed to the loop

\* every dict get_user_data can return
AllUserData == UNION { get_user_data(key) : key \in UserKeys }

\* the stage orders the loop is tried with: the script's own list, shorter
\* lists, the empty list and lists with a repeated label
FunnelOrders ==
    { StageOrderLiteral,
      << "agreement", "gender", "complete" >>,
      << "complete" >>,
      << >>,
      << "agreement", "agreement" >>,
      << "agreement", "gender", "agreement" >> }

InitFunnel ==
    /\ pc = "funnel"
    /\ cursor = 0
    /\ scan_i = 0
    /\ keys = << >>
    /\ users_data \in (SeqsUpTo(AllUserData, MaxRows) \ { << >> })
    /\ df = DataFrame(users_data)
    /\ selected_stages = {}
    /\ filtered_df = df.rows
    /\ onboarding_stages_ordered \in FunnelOrders
    /\ funnel_i = 0
    /\ funnel_data = << >>
    /\ funnel_df = << >>
    /\ stage_counts = NoTable
    /\ error = NoError
    /\ store_keys = UserKeys
    /\ total_users = Len(df.rows)

NextFunnel ==
    \/ FunnelStep
    \/ FunnelSort
    \/ FunnelSortRaise
    \/ StageStats

SpecFunnel == InitFunnel /\ [][NextFunnel]_vars

----------------------------------------------------------------------------
(* Vocabulary of the properties *)

\* the funnel table has been produced
FunnelDone == pc \in {"stats", "done"}

\* the stage label of a row of the user table, NaN when it has none
StageOf(row) ==
    IF "onboarding_stage" \in DOMAIN row THEN row["onboarding_stage"] ELSE NaN

\* the label is a member of the stage order
Recognized(label) ==
    \E j \in DOMAIN onboarding_stages_ordered :
        onboarding_stages_ordered[j] = label

\* the label stands at some one-based position lo..hi of the stage order
LabelBetween(label, lo, hi) ==
    \E j \in DOMAIN onboarding_stages_ordered :
        /\ lo <= j /\ j <= hi
        /\ onboarding_stages_ordered[j] = label

\* indices of the rows of the user table that satisfy P
RowsWhere(P(_)) == { k \in DOMAIN df.rows : P(df.rows[k]) }

\* identifiers of the rows of the user table that satisfy P
IdsWhere(P(_)) == { df.rows[k]["user_id"] : k \in RowsWhere(P) }

LastStage == Len(onboarding_stages_ordered)

\* the stage order is non-empty and has no repeated label
ValidStageOrder ==
    /\ onboarding_stages_ordered # << >>
    /\ \A a, b \in DOMAIN onboarding_stages_ordered :
          onboarding_stages_ordered[a] = onboarding_stages_ordered[b] => a = b

\* two rows of the user table carry the same identifier and the same label
HasDuplicateRecord ==
    \E a, b \in DOMAIN df.rows :
        /\ a < b
        /\ df.rows[a]["user_id"] = df.rows[b]["user_id"]
        /\ StageOf(df.rows[a]) = StageOf(df.rows[b])
        /\ Recognized(StageOf(df.rows[a]))

----------------------------------------------------------------------------
(* C1 *)

\* C1 as stated: once the funnel table is produced, the count of the stage
\* at each index equals the number of records (rows of the user table) whose
\* stage label is that stage or a later one.
C1_CountIsNumberOfRecords ==
    FunnelDone =>
      \A i \in DOMAIN funnel_df :
          funnel_df[i].Kolichestvo =
            Cardinality(RowsWhere(LAMBDA r : LabelBetween(StageOf(r), i, LastStage)))

\* C1 amended: once the funnel table is produced, the count of the stage at
\* each index equals the number of distinct record identifiers that occur
\* with a stage label equal to that stage or a later one.
C1_CountIsDistinctIdsAtOrAfter ==
    FunnelDone =>
      \A i \in DOMAIN funnel_df :
          funnel_df[i].Kolichestvo =
            Cardinality(IdsWhere(LAMBDA r : LabelBetween(StageOf(r), i, LastStage)))

\* C1 witness: the funnel of a table with a record at the first stage and a
\* record of another user at the last stage: the counts differ by position.
C1_Witness ==
    /\ FunnelDone
    /\ \E a, b \in DOMAIN df.rows :
          /\ df.rows[a]["user_id"] # df.rows[b]["user_id"]
          /\ StageOf(df.rows[a]) = onboarding_stages_ordered[1]
          /\ StageOf(df.rows[b]) = onboarding_stages_ordered[LastStage]
    /\ funnel_df[1].Kolichestvo = 2
    /\ funnel_df[LastStage].Kolichestvo = 1

----------------------------------------------------------------------------
(* C2 *)

\* C2: for a non-empty stage order without repeated labels, the funnel
\* table has exactly one row per stage, in the stage order's order: row i is
\* the row of the i-th stage (under its caption) and its order field is the
\* stage's zero-based index.
C2_OneRowPerStageInOrder ==
    (FunnelDone /\ ValidStageOrder) =>
      /\ Len(funnel_df) = Len(onboarding_stages_ordered)
      /\ \A i \in DOMAIN funnel_df :
            /\ funnel_df[i].Stadiya = stage_options_get(onboarding_stages_ordered[i])
            /\ funnel_df[i].Poryadok = i - 1

\* C2 witness: a funnel table of the script's ten stages has been produced.
C2_Witness ==
    /\ FunnelDone
    /\ onboarding_stages_ordered = StageOrderLiteral
    /\ Len(funnel_df) = 10
    /\ funnel_df[10].Stadiya = "Zavershennyy onbording"

----------------------------------------------------------------------------
(* C3 *)

\* C3: the counts of the funnel table never increase with the stage index;
\* in particular the first stage's count is at least the last stage's.
C3_CountsNonIncreasing ==
    FunnelDone =>
      /\ \A i, j \in DOMAIN funnel_df :
            i < j => funnel_df[i].Kolichestvo >= funnel_df[j].Kolichestvo
      /\ funnel_df[1].Kolichestvo >= funnel_df[Len(funnel_df)].Kolichestvo

\* C3 witness: a funnel whose counts strictly drop between two stages and
\* whose last count is not zero.
C3_Witness ==
    /\ FunnelDone
    /\ \E i, j \in DOMAIN funnel_df :
          i < j /\ funnel_df[i].Kolichestvo > funnel_df[j].Kolichestvo
    /\ funnel_df[Len(funnel_df)].Kolichestvo > 0

----------------------------------------------------------------------------
(* C4 *)

\* C4: the first stage's count equals the number of distinct record
\* identifiers whose stage label is a member of the stage order.
C4_FirstCountIsRecognizedIds ==
    FunnelDone =>
      funnel_df[1].Kolichestvo =
        Cardinality(IdsWhere(LAMBDA r : Recognized(StageOf(r))))

\* C4 witness: the table holds a recognized record, a record with a label
\* outside the stage order, and the first count is the recognized one.
C4_Witness ==
    /\ FunnelDone
    /\ \E a, b \in DOMAIN df.rows :
          /\ Recognized(StageOf(df.rows[a]))
          /\ StageOf(df.rows[b]) = "unknown_stage"
          /\ df.rows[a]["user_id"] # df.rows[b]["user_id"]
    /\ funnel_df[1].Kolichestvo = 1

----------------------------------------------------------------------------
(* C5 *)

\* the user table without its row k
WithoutRow(d, k) ==
    [ columns |-> d.columns,
      rows    |-> [ n \in 1..(Len(d.rows) - 1) |->
                       IF n < k THEN d.rows[n] ELSE d.rows[n + 1] ] ]

\* C5: an identifier that occurs twice with the same stage label counts
\* once: every count of the funnel table is the count the loop gives for the
\* table without the second occurrence, and no count exceeds the number of
\* distinct identifiers.
C5_DuplicateCountsOnce ==
    FunnelDone =>
      /\ \A a, b \in DOMAIN df.rows :
            ( /\ a < b
              /\ df.rows[a]["user_id"] = df.rows[b]["user_id"]
              /\ StageOf(df.rows[a]) = StageOf(df.rows[b]) )
            => \A i \in DOMAIN funnel_df :
                  funnel_df[i].Kolichestvo =
                    funnel_count(WithoutRow(df, b), onboarding_stages_ordered, i - 1)
      /\ \A i \in DOMAIN funnel_df :
            funnel_df[i].Kolichestvo
              <= Cardinality({ df.rows[k]["user_id"] : k \in DOMAIN df.rows })

\* C5 witness: the same key was scanned twice and fetched with the same
\* recognized label, and the first stage counts it once.
C5_Witness ==
    /\ FunnelDone
    /\ HasDuplicateRecord
    /\ Len(df.rows) = 2
    /\ funnel_df[1].Kolichestvo = 1

----------------------------------------------------------------------------
(* C6 *)

\* the row's stage label is missing or is not a member of the stage order
Unrecognized(row) == ~Recognized(StageOf(row))

\* the per-stage distribution table has been computed
HasStageCounts == stage_counts # NoTable

RECURSIVE SumOver(_, _)
\* the sum of f over the finite set S
SumOver(f, S) ==
    IF S = {} THEN 0
    ELSE LET x == CHOOSE y \in S : TRUE
         IN  f[x] + SumOver(f, S \ {x})

\* the only tally of labels outside the stage order that the run displays:
\* the rows of the distribution table for such labels (0 without the table)
UnrecognizedTally ==
    IF HasStageCounts
    THEN SumOver(stage_counts,
                 { l \in DOMAIN stage_counts : ~Recognized(l) })
    ELSE 0

\* the user table without its unrecognized rows
RecognizedOnly(d) ==
    [ columns |-> d.columns,
      rows    |-> IF "onboarding_stage" \in d.columns
                  THEN FilterIsin(d.rows, "onboarding_stage",
                                  Range(onboarding_stages_ordered))
                  ELSE << >> ]

\* C6 as stated: the funnel never fails on records with a missing or unknown
\* stage label, and the finished run displays an unrecognized-stage tally
\* equal to the number of such records.
C6_UnrecognizedTallyReported ==
    /\ pc = "aborted" => funnel_i = 0
    /\ pc = "done" => UnrecognizedTally = Cardinality(RowsWhere(Unrecognized))

\* C6 amended: records with a missing or unknown stage label never make the
\* funnel loop fail (a run only ends early before the loop starts) and are
\* excluded from every stage count (the counts are those of the table
\* without them); the funnel rows carry no diagnostic field, a missing label
\* is tallied nowhere, and an unknown label is tallied only as a row of its
\* own in the per-stage distribution table.
C6_UnrecognizedExcludedNotTallied ==
    /\ pc = "aborted" => (funnel_i = 0 /\ funnel_data = << >>)
    /\ FunnelDone =>
         \A i \in DOMAIN funnel_df :
            /\ funnel_df[i].Kolichestvo =
                 funnel_count(RecognizedOnly(df), onboarding_stages_ordered, i - 1)
            /\ funnel_df[i].Kolichestvo
                 <= Cardinality(IdsWhere(LAMBDA r : ~Unrecognized(r)))
            /\ DOMAIN funnel_df[i] = {"Stadiya", "Kolichestvo", "Poryadok"}
    /\ (pc = "done" /\ HasStageCounts) =>
         /\ NaN \notin DOMAIN stage_counts
         /\ \A k \in RowsWhere(Unrecognized) :
               StageOf(df.rows[k]) # NaN =>
                  /\ StageOf(df.rows[k]) \in DOMAIN stage_counts
                  /\ stage_counts[StageOf(df.rows[k])] =
                       Cardinality(RowsWhere(LAMBDA r : StageOf(r) = StageOf(df.rows[k])))
    /\ (pc = "done" /\ ~HasStageCounts) =>
         \A k \in DOMAIN df.rows : StageOf(df.rows[k]) = NaN

\* C6 witness: a finished run over a record with an unknown label, a record
\* without a label and a recognized record; only the last one is counted.
C6_Witness ==
    /\ pc = "done"
    /\ \E a, b, c \in DOMAIN df.rows :
          /\ StageOf(df.rows[a]) = "unknown_stage"
          /\ StageOf(df.rows[b]) = NaN
          /\ Recognized(StageOf(df.rows[c]))
    /\ funnel_df[1].Kolichestvo = 1
    /\ UnrecognizedTally = 1

----------------------------------------------------------------------------
(* C7 *)

\* the run is past the funnel computation, whichever way it ended
FunnelOver ==
    \/ FunnelDone
    \/ pc = "aborted" /\ funnel_i = Len(onboarding_stages_ordered)

----------------------------------------------------------------------------
(* C8 *)

\* C8 as stated: when no user keys are found, every stage's count is zero.
C8_NoKeysAllZero ==
    (FunnelDone /\ keys = << >>) =>
      \A i \in DOMAIN funnel_df : funnel_df[i].Kolichestvo = 0

\* C8 amended: when no user keys are found (or the scan raises), the user
\* table is replaced by the five demo records and the funnel reports their
\* counts: 5, 4, 3 and then 2 for each of the seven later stages.
C8_NoKeysDemoCounts ==
    (FunnelDone /\ keys = << >>) =>
      /\ Len(df.rows) = 5
      /\ [ i \in DOMAIN funnel_df |-> funnel_df[i].Kolichestvo ]
           = << 5, 4, 3, 2, 2, 2, 2, 2, 2, 2 >>

\* C8 witness: a run that found no keys has produced its funnel table.
C8_Witness ==
    /\ FunnelDone
    /\ keys = << >>
    /\ users_data = << >>
    /\ Len(funnel_df) = 10

----------------------------------------------------------------------------
(* C9 *)

\* C9 as stated: the counts of the per-stage distribution table, summed over
\* all its rows, equal the number of records whose stage label is a member
\* of the stage order.
C9_AllRowsSumToRecognized ==
    (pc = "done" /\ HasStageCounts) =>
      SumOver(stage_counts, DOMAIN stage_counts)
        = Cardinality(RowsWhere(LAMBDA r : Recognized(StageOf(r))))

\* C9 amended: the distribution table has a row for every label that occurs,
\* members of the stage order or not; its counts summed over the rows of
\* stage-order labels equal the number of records with a recognized label,
\* and summed over all rows equal the number of records that have a label.
C9_RecognizedRowsSumToRecognized ==
    (pc = "done" /\ HasStageCounts) =>
      /\ SumOver(stage_counts, { l \in DOMAIN stage_counts : Recognized(l) })
           = Cardinality(RowsWhere(LAMBDA r : Recognized(StageOf(r))))
      /\ SumOver(stage_counts, DOMAIN stage_counts)
           = Cardinality(RowsWhere(LAMBDA r : StageOf(r) # NaN))
      /\ DOMAIN stage_counts = { StageOf(df.rows[k]) : k \in DOMAIN df.rows } \ {NaN}

\* C9 witness: a distribution table with rows for two stages of the stage
\* order and for an unknown label.
C9_Witness ==
    /\ pc = "done"
    /\ HasStageCounts
    /\ "unknown_stage" \in DOMAIN stage_counts
    /\ Cardinality({ l \in DOMAIN stage_counts : Recognized(l) }) = 2

----------------------------------------------------------------------------
(* C10 *)

\* the count at label l of the distribution table, 0 when it has no such row
StageCountAt(l) ==
    IF l \in DOMAIN stage_counts THEN stage_counts[l] ELSE 0

RECURSIVE BackwardSum(_)
\* the distribution table's counts summed over the first i stages
BackwardSum(i) ==
    IF i = 0 THEN 0
    ELSE BackwardSum(i - 1) + StageCountAt(onboarding_stages_ordered[i])

\* C10 as stated: the funnel's count at each index equals the number of
\* records whose label is that stage or an earlier one, the counts never
\* decrease with the index and the last one is the number of distinct
\* recognized identifiers.
C10_FunnelIsCumulativeBackward ==
    FunnelDone =>
      /\ \A i \in DOMAIN funnel_df :
            funnel_df[i].Kolichestvo =
              Cardinality(RowsWhere(LAMBDA r : LabelBetween(StageOf(r), 1, i)))
      /\ \A i, j \in DOMAIN funnel_df :
            i < j => funnel_df[i].Kolichestvo <= funnel_df[j].Kolichestvo
      /\ funnel_df[Len(funnel_df)].Kolichestvo =
            Cardinality(IdsWhere(LAMBDA r : Recognized(StageOf(r))))

\* C10 amended: the funnel loop does not compute CumulativeBackward counts
\* (its rows are the forward counts); such counts are only obtained by
\* summing the per-stage distribution table over the stages up to an index:
\* that sum equals the number of records whose label is that stage or an
\* earlier one, never decreases with the index, and at the last stage equals
\* the number of recognized records (rows, not distinct identifiers).
C10_BackwardFromDistributionTable ==
    (pc = "done" /\ HasStageCounts) =>
      /\ \A i \in DOMAIN onboarding_stages_ordered :
            BackwardSum(i) =
              Cardinality(RowsWhere(LAMBDA r : LabelBetween(StageOf(r), 1, i)))
      /\ \A i, j \in DOMAIN onboarding_stages_ordered :
            i < j => BackwardSum(i) <= BackwardSum(j)
      /\ BackwardSum(LastStage) =
            Cardinality(RowsWhere(LAMBDA r : Recognized(StageOf(r))))

\* C10 witness: a finished run whose backward sums grow from the first stage
\* to the last while the funnel's own counts shrink.
C10_Witness ==
    /\ pc = "done"
    /\ HasStageCounts
    /\ BackwardSum(1) = 1
    /\ BackwardSum(LastStage) = 2
    /\ funnel_df[1].Kolichestvo = 2
    /\ funnel_df[LastStage].Kolichestvo = 1

----------------------------------------------------------------------------
(* C11 *)

\* a step taken during the funnel computation or the distribution table
\* leaves the user table, the fetched records and the stage order as they are
FunnelKeepsInputs ==
    pc \in {"funnel", "stats"} =>
       (/\ df' = df
        /\ users_data' = users_data
        /\ onboarding_stages_ordered' = onboarding_stages_ordered)

\* C11: the funnel computation is a pure function of the user table and the
\* stage order: computing the funnel again from the table as the run left it
\* gives the rows the run produced, and no step of the funnel computation or
\* of the distribution table changes the user table, the fetched records or
\* the stage order.
C11_FunnelIsPure ==
    /\ [](FunnelDone =>
            funnel_df = compute_funnel(df, onboarding_stages_ordered))
    /\ [][FunnelKeepsInputs]_vars

\* C11 witness: a finished run over three fetched records whose funnel has
\* different counts at the first and the last stage.
C11_Witness ==
    /\ pc = "done"
    /\ Len(df.rows) = 3
    /\ Len(users_data) = 3
    /\ funnel_df[1].Kolichestvo = 2
    /\ funnel_df[LastStage].Kolichestvo = 1

----------------------------------------------------------------------------
(* C12 *)

\* C12 as stated: when get_all_user_keys returns its list, every user key
\* that the store delivers over a complete cursor iteration is in the list.
C12_AllStoreKeysReturned ==
    pc = "scan_return" => store_keys \subseteq Range(keys)

----------------------------------------------------------------------------
(* C13 *)

\* the scan loop's position: calls made, and why the loop goes on or ends
ScanLoopBounded ==
    /\ scan_i <= max_iterations
    /\ pc = "scan" => (scan_i < max_iterations /\ (scan_i = 0 \/ cursor # 0))
    /\ pc = "scan_return" =>
          (scan_i >= 1 /\ (cursor = 0 \/ scan_i = max_iterations))
    /\ pc \in {"scan", "scan_return", "scan_except", "process"} =>
          error = NoError

\* a step of get_all_user_keys: every step of the loop is one more SCAN
\* call, a reply with cursor 0 ends the loop at once, and the except branch
\* hands the caller an empty list without raising
ScanLoopStep ==
    /\ pc = "scan" => scan_i' = scan_i + 1
    /\ (pc = "scan" /\ pc' # "scan_except" /\ cursor' = 0) => pc' = "scan_return"
    /\ pc = "scan_return" => (pc' = "process" /\ keys' = keys)
    /\ pc = "scan_except" =>
          (pc' = "process" /\ keys' = << >> /\ error' = NoError)

\* C13: the key scan always terminates: every step of the loop is a SCAN
\* call and there are at most 100 of them, the loop stops right after the
\* first reply with cursor 0, and a SCAN call that raises makes the function
\* return an empty list, dropping the keys collected so far, without
\* propagating the error.
C13_ScanLoopTerminates ==
    /\ []ScanLoopBounded
    /\ [][ScanLoopStep]_vars

\* C13 witness: the loop has used up its 100 calls with keys collected and
\* the cursor still not 0, and returns.
C13_Witness ==
    /\ pc = "scan_return"
    /\ scan_i = max_iterations
    /\ cursor # 0
    /\ keys # << >>

----------------------------------------------------------------------------
(* C14 *)

\* the user table has been loaded from the store and none of its records
\* has an onboarding_stage field
LoadedWithoutStage ==
    /\ keys # << >>
    /\ pc \in {"filters", "funnel", "stats", "done", "aborted"}
    /\ "onboarding_stage" \notin df.columns

\* C14 as stated: when the loaded records carry no onboarding_stage field,
\* the run is not aborted by the stage filter, default selection included,
\* and the funnel it reaches reports 0 for every stage.
C14_NoStageFieldReachesFunnel ==
    LoadedWithoutStage =>
      /\ pc # "aborted"
      /\ FunnelDone => \A i \in DOMAIN funnel_df : funnel_df[i].Kolichestvo = 0

----------------------------------------------------------------------------
(* C15 *)

\* the records fetched so far are one per scanned key, in the keys' order,
\* each under its key, and fetching has raised nothing
OneRecordPerKey ==
    /\ Len(users_data) <= Len(keys)
    /\ \A k \in DOMAIN users_data : users_data[k]["user_id"] = keys[k]
    /\ pc = "process" => error = NoError

\* the table built from a non-empty key list has one row per key
OneRowPerKey ==
    (keys # << >> /\ pc \notin {"scan", "scan_return", "scan_except", "process"})
      => /\ Len(df.rows) = Len(keys)
         /\ \A k \in DOMAIN df.rows : df.rows[k]["user_id"] = keys[k]

\* C15 as stated: records are fetched one per key under the key's own
\* user_id without raising, the table has one row per key, and the 'total
\* users' metric equals the number of keys returned by get_all_user_keys.
C15_TotalUsersIsNumberOfKeys ==
    /\ OneRecordPerKey
    /\ OneRowPerKey
    /\ total_users # NoMetric => total_users = Len(keys)

\* C15 amended: records are fetched one per key under the key's own user_id
\* without raising (hash keys, other keys and store errors alike) and the
\* table has one row per key; the 'total users' metric equals the number of
\* keys returned by get_all_user_keys when that list is not empty, and is 5,
\* the number of demo records, when it is empty.
C15_TotalUsersIsNumberOfKeysOrDemo ==
    /\ OneRecordPerKey
    /\ OneRowPerKey
    /\ total_users # NoMetric =>
          total_users = IF keys = << >> THEN 5 ELSE Len(keys)

\* C15 witness: a finished run over three keys, one fetched as a hash with a
\* stage, one for which the store raised; the metric is 3.
C15_Witness ==
    /\ pc = "done"
    /\ Len(keys) = 3
    /\ total_users = 3
    /\ \E a, b \in DOMAIN users_data :
          /\ "error" \in DOMAIN users_data[a]
          /\ "onboarding_stage" \in DOMAIN users_data[b]

====
